---- MODULE Spec2Model ----
(***************************************************************************)
(* Confucius agent: Orchestrator.run (iterate / parse / dispatch),         *)
(* MemoryManager.add_message (with history compression), the built-in      *)
(* extensions and RalphOrchestrator.run_ralph_loop.                        *)
(*                                                                         *)
(* Texts are TLA+ strings; the parser, the completion checks, the          *)
(* truncations and the token estimate are computed on their characters.    *)
(* Optional[str] is a sequence: <<>> is None, <<s>> is the string s.       *)
(***************************************************************************)
EXTENDS Integers, Sequences, FiniteSets, TLC

(***************************************************************************)
(* Bounds of the model.                                                    *)
(***************************************************************************)
\* largest value of max_iterations a run is configured with
MaxIter == 2

(***************************************************************************)
(* String helpers: Python's str operations used by the code.               *)
(***************************************************************************)
Min(S) == CHOOSE x \in S : \A y \in S : x <= y

\* s[m-1:n] of Python for 1-based m: indexes past the end are cut off
Slice(s, m, n) ==
    IF m > n \/ m > Len(s) THEN SubSeq(s, 1, 0)
    ELSE SubSeq(s, m, IF n > Len(s) THEN Len(s) ELSE n)

Char(s, i) == Slice(s, i, i)

\* s[from:] with a 1-based first index
Suffix(s, from) == Slice(s, from, Len(s))

\* s[:n]
Prefix(s, n) == IF Len(s) <= n THEN s ELSE Slice(s, 1, n)

LowerChar(c) ==
    CASE c = "A" -> "a" [] c = "B" -> "b" [] c = "C" -> "c" [] c = "D" -> "d"
      [] c = "E" -> "e" [] c = "F" -> "f" [] c = "G" -> "g" [] c = "H" -> "h"
      [] c = "I" -> "i" [] c = "J" -> "j" [] c = "K" -> "k" [] c = "L" -> "l"
      [] c = "M" -> "m" [] c = "N" -> "n" [] c = "O" -> "o" [] c = "P" -> "p"
      [] c = "Q" -> "q" [] c = "R" -> "r" [] c = "S" -> "s" [] c = "T" -> "t"
      [] c = "U" -> "u" [] c = "V" -> "v" [] c = "W" -> "w" [] c = "X" -> "x"
      [] c = "Y" -> "y" [] c = "Z" -> "z" [] OTHER -> c

\* s.lower(), a half at a time
RECURSIVE Lower(_)
Lower(s) ==
    IF Len(s) = 0 THEN ""
    ELSE IF Len(s) = 1 THEN LowerChar(s)
    ELSE Lower(Slice(s, 1, Len(s) \div 2)) \o Lower(Suffix(s, Len(s) \div 2 + 1))

\* least index i >= from at which sub occurs in s, 0 when there is none
Find(s, sub, from) ==
    LET I == {i \in from..(Len(s) - Len(sub) + 1) : Slice(s, i, i + Len(sub) - 1) = sub}
    IN  IF I = {} THEN 0 ELSE Min(I)

\* sub in s
Contains(s, sub) == \E i \in 1..(Len(s) - Len(sub) + 1) : Slice(s, i, i + Len(sub) - 1) = sub

IsSpace(c) == c \in {" ", "\n", "\t"}

RECURSIVE LStrip(_)
LStrip(s) == IF Len(s) > 0 /\ IsSpace(Char(s, 1)) THEN LStrip(Suffix(s, 2)) ELSE s

RECURSIVE RStrip(_)
RStrip(s) ==
    IF Len(s) > 0 /\ IsSpace(Char(s, Len(s))) THEN RStrip(Slice(s, 1, Len(s) - 1)) ELSE s

\* s.strip()
Strip(s) == RStrip(LStrip(s))

(***************************************************************************)
(* Optional values.                                                        *)
(***************************************************************************)
None == <<>>
Some(s) == <<s>>
IsSet(opt) == opt # <<>>
\* Python truthiness of an Optional[str]: None and "" are false
Truthy(opt) == opt # <<>> /\ Len(opt[1]) > 0

(***************************************************************************)
(* Action and the parser, Orchestrator._parse_actions.                     *)
(***************************************************************************)
ActionType == {"bash", "file_edit", "file_read", "file_search", "thinking", "completion"}

\* metadata holds at most the keys path, operation, pattern and search_type;
\* "" stands for an absent key (the parser sets only path)
Action(type, content, path) ==
    [type |-> type, content |-> content, path |-> path, operation |-> "",
     pattern |-> "", search_type |-> "", result |-> None, error |-> None]

\* re.finditer(r'<tag>(.*?)</tag>', s, re.DOTALL) from index `from`: group(1) of each match
RECURSIVE TagMatches(_, _, _, _)
TagMatches(s, open, close, from) ==
    LET i == Find(s, open, from)
        j == IF i = 0 THEN 0 ELSE Find(s, close, i + Len(open))
    IN  IF i = 0 \/ j = 0
          THEN <<>>
          ELSE <<Slice(s, i + Len(open), j - 1)>> \o TagMatches(s, open, close, j + Len(close))

\* first index >= from that holds no whitespace (Len(s)+1 when none)
RECURSIVE SkipSpace(_, _)
SkipSpace(s, from) ==
    IF from <= Len(s) /\ IsSpace(Char(s, from)) THEN SkipSpace(s, from + 1) ELSE from

\* match of  head \s+ attr "([^"]+)">  starting exactly at index i:
\* [ok, value, end] where end is the index after the closing  ">
AttrMatchAt(s, head, attr, i) ==
    LET a == i + Len(head)
        b == SkipSpace(s, a)
        c == b + Len(attr)
        q == Find(s, "\"", c)
        ok == /\ Slice(s, i, a - 1) = head
              /\ b > a
              /\ Slice(s, b, c - 1) = attr
              /\ q > c
              /\ Slice(s, q, q + 1) = "\">"
    IN  IF ok THEN [ok |-> TRUE, value |-> Slice(s, c, q - 1), end |-> q + 2]
              ELSE [ok |-> FALSE, value |-> "", end |-> 0]

\* re.finditer(r'<file_edit\s+path="([^"]+)">(.*?)</file_edit>', s, re.DOTALL)
RECURSIVE FileEditMatches(_, _)
FileEditMatches(s, from) ==
    LET i == Find(s, "<file_edit", from)
    IN  IF i = 0 THEN <<>>
        ELSE LET m == AttrMatchAt(s, "<file_edit", "path=\"", i)
                 j == IF m.ok THEN Find(s, "</file_edit>", m.end) ELSE 0
             IN  IF j = 0
                   THEN FileEditMatches(s, i + 1)
                   ELSE <<[path |-> m.value, body |-> Slice(s, m.end, j - 1)]>>
                        \o FileEditMatches(s, j + Len("</file_edit>"))

\* re.finditer(r'<search\s+pattern="([^"]+)">', s, re.DOTALL)
RECURSIVE SearchMatches(_, _)
SearchMatches(s, from) ==
    LET i == Find(s, "<search", from)
    IN  IF i = 0 THEN <<>>
        ELSE LET m == AttrMatchAt(s, "<search", "pattern=\"", i)
             IN  IF m.ok THEN <<m.value>> \o SearchMatches(s, m.end)
                         ELSE SearchMatches(s, i + 1)

MapSeq(f(_), seq) == [k \in 1..Len(seq) |-> f(seq[k])]

ParserPhrases == {"task complete", "finished", "done with task"}

BashAction(g) == Action("bash", Strip(g), "")
FileEditAction(m) == Action("file_edit", Strip(m.body), m.path)
FileReadAction(g) == Action("file_read", Strip(g), "")
FileSearchAction(g) == Action("file_search", Strip(g), "")
ThinkingAction(g) == Action("thinking", Strip(g), "")

\* Orchestrator._parse_actions: the matches of each kind, kind by kind in the
\* order of tag_patterns, then one completion action when a phrase occurs
ParseActions(output) ==
    MapSeq(BashAction, TagMatches(output, "<bash>", "</bash>", 1))
    \o MapSeq(FileEditAction, FileEditMatches(output, 1))
    \o MapSeq(FileReadAction, TagMatches(output, "<file_read>", "</file_read>", 1))
    \o MapSeq(FileSearchAction, SearchMatches(output, 1))
    \o MapSeq(ThinkingAction, TagMatches(output, "<thinking>", "</thinking>", 1))
    \o (IF \E phrase \in ParserPhrases : Contains(Lower(output), phrase)
          THEN <<Action("completion", output, "")>>
          ELSE <<>>)

CompletionSignals ==
    {"task complete", "finished successfully", "done with all steps",
     "no further actions needed"}

\* Orchestrator._check_completion
CheckCompletion(output) == \E signal \in CompletionSignals : Contains(Lower(output), signal)

(***************************************************************************)
(* Message and MemoryManager.                                              *)
(***************************************************************************)
DefaultMaxTokens == 100000
\* compression_threshold = 0.8, as the fraction CompressionNum / CompressionDen
CompressionNum == 8
CompressionDen == 10
\* _compress_history keeps the last KeepRecent messages and needs MinCompressLen
KeepRecent == 5
MinCompressLen == 10

\* metadata holds at most the keys compressed / original_count (of a summary)
\* and cache_control
Message(role, content) ==
    [role |-> role, content |-> content, compressed |-> FALSE, original_count |-> 0,
     cache_control |-> FALSE]

RECURSIVE SumLen(_)
SumLen(msgs) == IF msgs = <<>> THEN 0 ELSE Len(Head(msgs).content) + SumLen(Tail(msgs))

\* MemoryManager._estimate_tokens
EstimateTokens(msgs) == SumLen(msgs) \div 4

\* "\n".join(prefix + x for x in items)
RECURSIVE JoinLines(_, _)
JoinLines(prefix, items) ==
    IF items = <<>> THEN ""
    ELSE IF Len(items) = 1 THEN prefix \o items[1]
    ELSE prefix \o items[1] \o "\n" \o JoinLines(prefix, Tail(items))

FirstN(seq, n) == IF Len(seq) <= n THEN seq ELSE SubSeq(seq, 1, n)

IsActionMessage(m) ==
    /\ m.role = "assistant"
    /\ (Contains(Lower(m.content), "bash") \/ Contains(Lower(m.content), "file"))

IsErrorMessage(m) ==
    Contains(Lower(m.content), "error") \/ Contains(Lower(m.content), "failed")

ActionExcerpt(m) == Prefix(m.content, 200)
ErrorExcerpt(m) == Prefix(m.content, 150)

\* MemoryManager._create_summary
CreateSummary(older) ==
    LET actions_taken == MapSeq(ActionExcerpt, SelectSeq(older, IsActionMessage))
        errors == MapSeq(ErrorExcerpt, SelectSeq(older, IsErrorMessage))
    IN  "## Session Summary\n\n"
        \o (IF actions_taken # <<>>
              THEN "### Actions Taken:\n" \o JoinLines("- ", FirstN(actions_taken, 5)) \o "\n\n"
              ELSE "")
        \o (IF errors # <<>>
              THEN "### Errors Encountered:\n" \o JoinLines("- ", FirstN(errors, 3)) \o "\n\n"
              ELSE "")

\* mutant: the slice of recent messages is one short
CompressHistoryKeepsFour(msgs) ==
    IF Len(msgs) < MinCompressLen THEN msgs
    ELSE LET recent == SubSeq(msgs, Len(msgs) - KeepRecent + 2, Len(msgs))
             older == SubSeq(msgs, 1, Len(msgs) - KeepRecent)
             summary_msg == [role |-> "assistant",
                             content |-> "[COMPRESSED CONTEXT]\n" \o CreateSummary(older),
                             compressed |-> TRUE,
                             original_count |-> Len(older),
                             cache_control |-> FALSE]
         IN  <<summary_msg>> \o recent

\* mutant: a summary already at the head is kept in front of the new one
CompressHistoryKeepsSummary(msgs) ==
    IF Len(msgs) < MinCompressLen THEN msgs
    ELSE LET recent == SubSeq(msgs, Len(msgs) - KeepRecent + 1, Len(msgs))
             older == SubSeq(msgs, 1, Len(msgs) - KeepRecent)
             summary_msg == [role |-> "assistant",
                             content |-> "[COMPRESSED CONTEXT]\n" \o CreateSummary(older),
                             compressed |-> TRUE,
                             original_count |-> Len(older),
                             cache_control |-> FALSE]
         IN  (IF msgs[1].compressed THEN <<msgs[1]>> ELSE <<>>) \o <<summary_msg>> \o recent

\* MemoryManager._compress_history
CompressHistory(msgs) ==
    IF Len(msgs) < MinCompressLen THEN msgs
    ELSE LET recent == SubSeq(msgs, Len(msgs) - KeepRecent + 1, Len(msgs))
             older == SubSeq(msgs, 1, Len(msgs) - KeepRecent)
             summary_msg == [role |-> "assistant",
                             content |-> "[COMPRESSED CONTEXT]\n" \o CreateSummary(older),
                             compressed |-> TRUE,
                             original_count |-> Len(older),
                             cache_control |-> FALSE]
         IN  <<summary_msg>> \o recent

\* mutant: the budget test compares the wrong way round
AddMessageUnderBudget(msgs, role, content, max_tokens) ==
    LET appended == Append(msgs, Message(role, content))
    IN  IF EstimateTokens(appended) * CompressionDen < max_tokens * CompressionNum
          THEN CompressHistory(appended)
          ELSE appended

\* mutant: every add_message compresses, whatever the estimate
AddMessageAlwaysCompresses(msgs, role, content, max_tokens) ==
    CompressHistory(Append(msgs, Message(role, content)))

\* MemoryManager.add_message: append, then compress when the estimate exceeds
\* max_tokens * compression_threshold
AddMessage(msgs, role, content, max_tokens) ==
    LET appended == Append(msgs, Message(role, content))
    IN  IF EstimateTokens(appended) * CompressionDen > max_tokens * CompressionNum
          THEN CompressHistory(appended)
          ELSE appended

(***************************************************************************)
(* The world the extensions act on: the files under the workspace root     *)
(* (a function from the relative paths that exist to their contents), the  *)
(* files whose read raises, and what a shell command does.                 *)
(***************************************************************************)
Exists(fs, path) == path \in DOMAIN fs

WriteFile(fs, path, content) ==
    [q \in DOMAIN fs \cup {path} |-> IF q = path THEN content ELSE fs[q]]

RemoveFile(fs, path) == [q \in DOMAIN fs \ {path} |-> fs[q]]

\* the components of a path, split at "/"
RECURSIVE Segments(_)
Segments(path) ==
    LET i == Find(path, "/", 1)
    IN  IF i = 0 THEN <<path>>
        ELSE <<Slice(path, 1, i - 1)>> \o Segments(Suffix(path, i + 1))

\* depth below the workspace root after each component; -1 once the path left it
RECURSIVE Walk(_, _)
Walk(segs, depth) ==
    IF segs = <<>> \/ depth < 0 THEN depth
    ELSE IF Head(segs) = ".." THEN Walk(Tail(segs), depth - 1)
    ELSE IF Head(segs) \in {"", "."} THEN Walk(Tail(segs), depth)
    ELSE Walk(Tail(segs), depth + 1)

\* (workspace_root / path).resolve().relative_to(workspace_root.resolve()) raises
\* ValueError: an absolute path, or one that climbs above the root
OutsideWorkspace(path) ==
    \/ (Len(path) > 0 /\ Char(path, 1) = "/")
    \/ Walk(Segments(path), 0) < 0

(***************************************************************************)
(* Extensions (extensions.py).  An extension is named by its class; an     *)
(* execute returns the action, the RunContext and the files it leaves.     *)
(***************************************************************************)
ExtensionKinds ==
    {"bash", "file_edit", "file_read", "file_search", "thinking", "prompt_cache", "planning"}

\* Extension.can_handle of each class
CanHandle(ext, action) ==
    CASE ext = "bash" -> action.type = "bash"
      [] ext = "file_edit" -> action.type = "file_edit"
      [] ext = "file_read" -> action.type = "file_read"
      [] ext = "file_search" -> action.type = "file_search"
      [] ext = "thinking" -> action.type = "thinking"
      [] OTHER -> FALSE

EmptyContext ==
    [last_command |-> None, last_exit_code |-> None, thoughts |-> <<>>, artifacts |-> <<>>]

Outcome(action, ctx, fs) == [action |-> action, ctx |-> ctx, fs |-> fs]

BlockedCommands == {"rm -rf /", "mkfs", "dd if="}
BashTimeout == 30
BashOutputLimit == 2000

\* BashExtension.execute; cmd is what subprocess.run does:
\* [kind |-> "exit", returncode, output], [kind |-> "timeout"] or [kind |-> "raise"]
BashExecute(action, ctx, fs, cmd) ==
    LET command == Strip(action.content)
    IN  IF \E blocked \in BlockedCommands : Contains(command, blocked)
          THEN Outcome([action EXCEPT !.error = Some("Blocked dangerous command: " \o command)],
                       ctx, fs)
        ELSE IF cmd.kind = "exit"
          THEN Outcome([action EXCEPT
                          !.result = Some(Prefix(cmd.output, BashOutputLimit)),
                          !.error = IF cmd.returncode # 0
                                      THEN Some("Command failed with exit code "
                                                \o ToString(cmd.returncode))
                                      ELSE @],
                       [ctx EXCEPT !.last_command = Some(command),
                                   !.last_exit_code = Some(cmd.returncode)],
                       fs)
        ELSE IF cmd.kind = "timeout"
          THEN Outcome([action EXCEPT !.error = Some("Command timed out after "
                                                     \o ToString(BashTimeout) \o "s")],
                       ctx, fs)
        ELSE Outcome([action EXCEPT !.error = Some("Execution error: " \o cmd.output)], ctx, fs)

\* str.replace(search, replace, 1) when search occurs in content
ReplaceFirst(content, search, replace) ==
    LET i == Find(content, search, 1)
    IN  IF i = 0 THEN content
        ELSE Slice(content, 1, i - 1) \o replace \o Suffix(content, i + Len(search))

\* index at which the lazy group before (?:<<<|$) ends: the first "<<<" or the end
\* of the text (before a final newline), whichever comes first, from index `from`
PatchGroupEnd(s, from) ==
    LET k == Find(s, "<<<", from)
        e == IF Len(s) >= from /\ Char(s, Len(s)) = "\n" THEN Len(s) ELSE Len(s) + 1
    IN  IF k # 0 /\ k < e THEN k ELSE e

\* the matches of r'<<<SEARCH>>>(.*?)<<<REPLACE>>>(.*?)(?:<<<|$)' applied in turn
RECURSIVE ApplyPatches(_, _, _)
ApplyPatches(content, patch, from) ==
    LET i == Find(patch, "<<<SEARCH>>>", from)
        j == IF i = 0 THEN 0 ELSE Find(patch, "<<<REPLACE>>>", i + Len("<<<SEARCH>>>"))
    IN  IF i = 0 \/ j = 0 THEN content
        ELSE LET g == j + Len("<<<REPLACE>>>")
                 e == PatchGroupEnd(patch, g)
                 search == Strip(Slice(patch, i + Len("<<<SEARCH>>>"), j - 1))
                 replace == Strip(Slice(patch, g, e - 1))
                 next == IF Slice(patch, e, e + 2) = "<<<" THEN e + 3 ELSE e + 1
             IN  ApplyPatches(ReplaceFirst(content, search, replace), patch, next)

\* FileEditExtension.execute
FileEditExecute(action, ctx, fs) ==
    LET file_path == action.path
        operation == IF action.operation = "" THEN "write" ELSE action.operation
    IN  IF file_path = ""
          THEN Outcome([action EXCEPT !.error = Some("No file path specified")], ctx, fs)
        ELSE IF OutsideWorkspace(file_path)
          THEN Outcome([action EXCEPT
                          !.error = Some("File path outside workspace: " \o file_path)], ctx, fs)
        ELSE IF operation \in {"create", "write"}
          THEN Outcome([action EXCEPT
                          !.result = Some("File written successfully: " \o file_path)],
                       ctx, WriteFile(fs, file_path, action.content))
        ELSE IF operation = "append"
          THEN Outcome([action EXCEPT !.result = Some("Content appended to: " \o file_path)],
                       ctx,
                       WriteFile(fs, file_path,
                                 (IF Exists(fs, file_path) THEN fs[file_path] ELSE "")
                                 \o action.content))
        ELSE IF operation = "delete"
          THEN IF Exists(fs, file_path)
                 THEN Outcome([action EXCEPT !.result = Some("File deleted: " \o file_path)],
                              ctx, RemoveFile(fs, file_path))
                 ELSE Outcome([action EXCEPT !.error = Some("File not found: " \o file_path)],
                              ctx, fs)
        ELSE IF operation = "patch"
          THEN IF Exists(fs, file_path)
                 THEN Outcome([action EXCEPT !.result = Some("Patch applied to: " \o file_path)],
                              ctx,
                              WriteFile(fs, file_path,
                                        ApplyPatches(fs[file_path], action.content, 1)))
                 ELSE Outcome([action EXCEPT
                                 !.error = Some("File operation failed: " \o file_path
                                                \o " does not exist")],
                              ctx, fs)
        ELSE Outcome([action EXCEPT !.error = Some("Unknown operation: " \o operation)], ctx, fs)

FileReadLimit == 10000

\* FileReadExtension.execute; unreadable holds the files whose read_text raises
FileReadExecute(action, ctx, fs, unreadable) ==
    LET file_path == Strip(action.content)
    IN  IF OutsideWorkspace(file_path)
          THEN Outcome([action EXCEPT
                          !.error = Some("File path outside workspace: " \o file_path)], ctx, fs)
        ELSE IF ~Exists(fs, file_path)
          THEN Outcome([action EXCEPT !.error = Some("File not found: " \o file_path)], ctx, fs)
        ELSE IF file_path \in unreadable
          THEN Outcome([action EXCEPT !.error = Some("Failed to read file: cannot decode")],
                       ctx, fs)
        ELSE LET content == fs[file_path]
                 shown == IF Len(content) > FileReadLimit
                            THEN Prefix(content, FileReadLimit) \o "\n\n[... truncated "
                                 \o ToString(Len(content) - FileReadLimit) \o " characters ...]"
                            ELSE content
             IN  Outcome([action EXCEPT !.result = Some(shown)],
                         [ctx EXCEPT !.artifacts =
                            [k \in DOMAIN ctx.artifacts \cup {"file:" \o file_path} |->
                               IF k = "file:" \o file_path THEN content ELSE ctx.artifacts[k]]],
                         fs)

\* a glob pattern against a relative path: a literal name, or "*" and a suffix
GlobMatch(pattern, path) ==
    \/ pattern = path
    \/ /\ Len(pattern) > 0 /\ Char(pattern, 1) = "*"
       /\ Len(path) >= Len(pattern) - 1
       /\ Suffix(path, Len(path) - Len(pattern) + 2) = Suffix(pattern, 2)

\* the members of a finite set of strings as a list (rglob yields them in
\* directory order, which the code does not sort)
RECURSIVE ListOf(_)
ListOf(S) == IF S = {} THEN <<>> ELSE LET x == CHOOSE y \in S : TRUE IN <<x>> \o ListOf(S \ {x})

SearchResultLimit == 20

\* FileSearchExtension.execute with _search_files and _search_content
FileSearchExecute(action, ctx, fs) ==
    LET pattern == IF action.pattern = "" THEN action.content ELSE action.pattern
        search_type == IF action.search_type = "" THEN "filename" ELSE action.search_type
        results ==
            IF search_type = "filename"
              THEN ListOf({p \in DOMAIN fs : GlobMatch(pattern, p)})
              ELSE ListOf({p \in DOMAIN fs : GlobMatch("*.py", p) /\ Contains(fs[p], pattern)})
    IN  IF search_type \notin {"filename", "content"}
          THEN Outcome([action EXCEPT !.error = Some("Unknown search type: " \o search_type)],
                       ctx, fs)
        ELSE IF search_type = "filename" /\ (pattern = "" \/ Char(pattern, 1) = "/")
          THEN Outcome([action EXCEPT !.error = Some("Search failed: Unacceptable pattern")],
                       ctx, fs)
        ELSE IF results # <<>>
          THEN Outcome([action EXCEPT
                          !.result = Some("Found " \o ToString(Len(results)) \o " matches:\n"
                                          \o JoinLines("", FirstN(results, SearchResultLimit)))],
                       ctx, fs)
        ELSE Outcome([action EXCEPT !.result = Some("No matches found")], ctx, fs)

\* ThinkingExtension.execute
ThinkingExecute(action, ctx, fs) ==
    Outcome([action EXCEPT !.result = Some("[Thinking logged]")],
            [ctx EXCEPT !.thoughts = Append(@, action.content)], fs)

\* Extension.execute of each class; PromptCacheExtension and PlanningExtension
\* return the action untouched
Execute(ext, action, ctx, fs, unreadable, cmd) ==
    CASE ext = "bash" -> BashExecute(action, ctx, fs, cmd)
      [] ext = "file_edit" -> FileEditExecute(action, ctx, fs)
      [] ext = "file_read" -> FileReadExecute(action, ctx, fs, unreadable)
      [] ext = "file_search" -> FileSearchExecute(action, ctx, fs)
      [] ext = "thinking" -> ThinkingExecute(action, ctx, fs)
      [] OTHER -> Outcome(action, ctx, fs)

\* Extension.execute raises instead of returning: the resolve() of
\* FileReadExtension and FileEditExtension stands outside their try blocks but
\* for ValueError, and Path.resolve raises RuntimeError on a symbolic link loop
ExecuteRaises(ext, action, looping) ==
    \/ ext = "file_read" /\ Strip(action.content) \in looping
    \/ ext = "file_edit" /\ action.path # "" /\ action.path \in looping

\* str() of that exception (the path is shown relative to the workspace)
RaisedText(action) ==
    "Symlink loop from '"
    \o (IF action.type = "file_read" THEN Strip(action.content) ELSE action.path) \o "'"

\* _execute_action raises: the first extension that can handle the action
\* raises from its execute, and nothing on the way catches it
RECURSIVE DispatchRaisesFrom(_, _, _, _)
DispatchRaisesFrom(extensions, k, action, looping) ==
    IF k > Len(extensions) THEN FALSE
    ELSE IF CanHandle(extensions[k], action) THEN ExecuteRaises(extensions[k], action, looping)
    ELSE DispatchRaisesFrom(extensions, k + 1, action, looping)

DispatchRaises(extensions, action, looping) == DispatchRaisesFrom(extensions, 1, action, looping)

\* str(ActionType member), as the f-string of _execute_action prints it
EnumName(type) ==
    CASE type = "bash" -> "ActionType.BASH_COMMAND"
      [] type = "file_edit" -> "ActionType.FILE_EDIT"
      [] type = "file_read" -> "ActionType.FILE_READ"
      [] type = "file_search" -> "ActionType.FILE_SEARCH"
      [] type = "thinking" -> "ActionType.THINKING"
      [] OTHER -> "ActionType.COMPLETION"

\* the loop of Orchestrator._execute_action from extension k on: the first
\* extension whose can_handle answers true executes the action and the loop
\* returns; past the end of the list the action gets the no-handler error.
\* asked and executed_by list the indexes whose can_handle and execute ran.
\* mutant: the no-handler path forgets the error
NoHandlerSilent(action) == action

\* the end of _execute_action, when no extension claimed the action
NoHandler(action) ==
    [action EXCEPT !.error = Some("No extension found to handle " \o EnumName(action.type))]

RECURSIVE DispatchFrom(_, _, _, _, _, _, _)
DispatchFrom(extensions, k, action, ctx, fs, unreadable, cmd) ==
    IF k > Len(extensions)
      THEN [out |-> Outcome(NoHandler(action), ctx, fs),
            asked |-> <<>>, executed_by |-> <<>>]
    ELSE IF CanHandle(extensions[k], action)
      THEN [out |-> Execute(extensions[k], action, ctx, fs, unreadable, cmd),
            asked |-> <<k>>, executed_by |-> <<k>>]
    ELSE LET rest == DispatchFrom(extensions, k + 1, action, ctx, fs, unreadable, cmd)
         IN  [rest EXCEPT !.asked = <<k>> \o @]

\* mutant: the loop does not return at the first match, so every extension that
\* can handle the action executes it
ExecuteActionFanOut(extensions, action, ctx, fs, unreadable, cmd) ==
    LET d == DispatchFrom(extensions, 1, action, ctx, fs, unreadable, cmd)
        all == [k \in 1..Len(extensions) |-> k]
        handles(k) == CanHandle(extensions[k], action)
    IN  [d EXCEPT !.executed_by = SelectSeq(all, handles)]

\* Orchestrator._execute_action
ExecuteAction(extensions, action, ctx, fs, unreadable, cmd) ==
    DispatchFrom(extensions, 1, action, ctx, fs, unreadable, cmd)

(***************************************************************************)
(* The hook chains of Orchestrator._prepare_messages and _call_llm.        *)
(***************************************************************************)
PlanningText ==
    "Before taking action:\n1. Break down the task into steps\n"
    \o "2. Identify files/commands needed\n3. Consider potential errors\n"
    \o "4. Execute step by step\n"

CacheMinLen == 1000

\* list.insert(1, x)
InsertSecond(msgs, x) ==
    IF msgs = <<>> THEN <<x>> ELSE <<Head(msgs), x>> \o Tail(msgs)

MarkCached(m) ==
    IF m.role = "system" /\ Len(m.content) > CacheMinLen
      THEN [m EXCEPT !.cache_control = TRUE] ELSE m

\* Extension.on_input_messages of each class.  The list handed in is
\* MemoryManager.messages itself (get_messages returns it), so what a hook does
\* to it in place is done to the memory.
OnInputMessages(ext, msgs) ==
    CASE ext = "planning" ->
           IF Len(msgs) <= 2 THEN InsertSecond(msgs, Message("system", PlanningText)) ELSE msgs
      [] ext = "prompt_cache" -> MapSeq(MarkCached, msgs)
      [] OTHER -> msgs

RECURSIVE InputChain(_, _)
InputChain(exts, msgs) ==
    IF exts = <<>> THEN msgs ELSE InputChain(Tail(exts), OnInputMessages(Head(exts), msgs))

\* Extension.on_llm_output of each class (the SubagentExtension's own is the
\* subject of the delegation actions)
OnLlmOutput(ext, output) == output

RECURSIVE OutputChain(_, _)
OutputChain(exts, output) ==
    IF exts = <<>> THEN output ELSE OutputChain(Tail(exts), OnLlmOutput(Head(exts), output))

\* mutant: the hooks are called from the last registered extension to the first
HookOrderReversed(n) == [k \in 1..n |-> n + 1 - k]

\* `for ext in self.extensions` of _prepare_messages and _call_llm: the indexes
\* of n registered extensions in the order the loop visits them
HookOrder(n) == [k \in 1..n |-> k]

\* the hook invocations the loop makes from its k-th pass to its upto-th, the
\* first of them given `given`: which hook, on which extension, what it was
\* given and what it returned
RECURSIVE HookCallsFrom(_, _, _, _, _)
HookCallsFrom(hook_name, exts, k, upto, given) ==
    IF k > upto THEN <<>>
    ELSE LET ext == HookOrder(Len(exts))[k]
             returned == IF hook_name = "on_input_messages"
                           THEN OnInputMessages(exts[ext], given)
                           ELSE OnLlmOutput(exts[ext], given)
         IN  <<[hook |-> hook_name, ext |-> ext, given |-> given, returned |-> returned]>>
             \o HookCallsFrom(hook_name, exts, k + 1, upto, returned)

\* the invocation of the LLM callback
CallbackCall(given, returned) ==
    [hook |-> "llm_client", ext |-> 0, given |-> given, returned |-> returned]

Formatted(m) == [role |-> m.role, content |-> m.content]

\* Orchestrator._prepare_messages: the memory as the hooks leave it, and the
\* list handed to the LLM callback
PrepareMessages(exts, msgs, prompt) ==
    LET hooked == InputChain(exts, msgs)
    IN  [messages |-> hooked,
         formatted |-> (IF prompt # "" THEN <<[role |-> "system", content |-> prompt]>>
                                       ELSE <<>>)
                       \o MapSeq(Formatted, hooked)]

(***************************************************************************)
(* SubagentExtension: the text operations of on_llm_output and the call    *)
(* record of _spawn_subagent.                                              *)
(***************************************************************************)
\* re.finditer(r'<subagent\s+name="([^"]+)">(.*?)</subagent>', s, re.DOTALL):
\* group(1), group(2) and group(0) of each match
RECURSIVE SubagentMatches(_, _)
SubagentMatches(s, from) ==
    LET i == Find(s, "<subagent", from)
    IN  IF i = 0 THEN <<>>
        ELSE LET m == AttrMatchAt(s, "<subagent", "name=\"", i)
                 j == IF m.ok THEN Find(s, "</subagent>", m.end) ELSE 0
             IN  IF j = 0
                   THEN SubagentMatches(s, i + 1)
                   ELSE <<[name |-> m.value, task |-> Slice(s, m.end, j - 1),
                           span |-> Slice(s, i, j + Len("</subagent>") - 1)]>>
                        \o SubagentMatches(s, j + Len("</subagent>"))

\* s.replace(old, new) for a non-empty old: every occurrence, left to right
RECURSIVE ReplaceAll(_, _, _)
ReplaceAll(s, old, new) ==
    LET i == Find(s, old, 1)
    IN  IF i = 0 THEN s
        ELSE Slice(s, 1, i - 1) \o new \o ReplaceAll(Suffix(s, i + Len(old)), old, new)

DepthLimitMarker(max_depth) ==
    "[ERROR: Subagent depth limit reached (" \o ToString(max_depth) \o ")]"

\* mutant: the limit is tested one level too late
DepthLimitReachedLate(depth, max_depth) == depth > max_depth

\* `if self.current_depth >= self.max_depth` of on_llm_output
DepthLimitReached(depth, max_depth) == depth >= max_depth

\* modified_output.replace(match.group(0), result_block)
Splice(text, span, block) == ReplaceAll(text, span, block)

NotSubagent(ext) == ext # "subagent"

\* the extensions of a sub-orchestrator: available_extensions without the
\* SubagentExtension instances
SubExtensions(available) == SelectSeq(available, NotSubagent)

SubSystemPrompt(name) == "You are " \o name \o ", a specialized subagent."

InputSummaryLen == 150
OutputSummaryLen == 200
ErrorSummaryLen == 100

ActionTypeOf(entry) == entry.type

\* mutant: a sub-run that did not complete is recorded as a success
StatusAlwaysSuccess(success) == "success"

\* `status = "success" if result['success'] else "failed"`
StatusOf(success) == IF success THEN "success" ELSE "failed"

\* mutant: the depth is not decremented when the spawn ends
FinallySkipped(depth) == depth

\* the finally clause of _spawn_subagent: `self.current_depth -= 1`
Finally(depth) == depth - 1

\* the SubagentCall of a sub-run that returned result (timestamp and duration
\* are left out); iteration is metadata.get('current_iteration', 0) of the
\* parent context, a key nothing sets
SubagentCallOf(name, task, returned, trace) ==
    [name |-> name,
     input_summary |-> Prefix(task, InputSummaryLen),
     output_summary |-> Prefix(returned.final_output, OutputSummaryLen),
     full_output |-> returned.final_output,
     call_index |-> Len(trace),
     iteration |-> 0,
     actions_taken |-> MapSeq(ActionTypeOf, returned.actions),
     memory_snapshot |-> [iterations |-> returned.iterations, success |-> returned.success,
                          action_count |-> Len(returned.actions)],
     status |-> StatusOf(returned.success)]

\* the SubagentCall of a sub-run that raised an exception whose str is e
SubagentCallError(name, task, e, trace) ==
    [name |-> name,
     input_summary |-> Prefix(task, InputSummaryLen),
     output_summary |-> "ERROR: " \o Prefix(e, ErrorSummaryLen),
     full_output |-> "Subagent failed with error: " \o e,
     call_index |-> Len(trace),
     iteration |-> 0,
     actions_taken |-> <<>>,
     memory_snapshot |-> [error |-> e],
     status |-> "error"]

\* SubagentExtension._format_result
FormatResult(call) ==
    "<subagent_result name=\"" \o call.name \o "\" call_index=\""
    \o ToString(call.call_index) \o "\">\n" \o call.full_output \o "\n</subagent_result>"

(***************************************************************************)
(* Configurations and inputs.                                              *)
(***************************************************************************)
\* RalphLoopConfig.completion_promise (its default)
CompletionPromise == "TASK_COMPLETE"

Task == "Complete the deployment"

\* extension list and system prompt: examples/integration_demo.py example 2,
\* create_coding_agent (the first line of its prompt), a lone FileReadExtension
Setups ==
    {[extensions |-> <<>>, system_prompt |-> "You are a helpful assistant."],
     [extensions |-> <<"planning", "bash", "file_edit", "file_read", "file_search", "thinking">>,
      system_prompt |-> "You are an expert software engineering agent."],
     [extensions |-> <<"file_read">>, system_prompt |-> ""]}

\* what the LLM callback may return on a call
LLMOutputs ==
    {"Working on task... (iteration 1)",
     "Task completed successfully! TASK_COMPLETE",
     "<thinking> plan </thinking><bash> ls </bash>",
     "<file_read>notes.txt</file_read> TASK_COMPLETE",
     "<bash>rm -rf /</bash> finished",
     "<search pattern=\"*.txt\"> no further actions needed"}

Exit(returncode, output) == [kind |-> "exit", returncode |-> returncode, output |-> output]

\* what a callback that delegates may return, to the parent or to a subagent:
\* one span, two different spans, the same span twice, an action, plain text
SubagentReplies ==
    {"<subagent name=\"Scout\">list files</subagent>",
     "<subagent name=\"Scout\">list files</subagent> <subagent name=\"Builder\"> build </subagent>",
     "<subagent name=\"Scout\">list files</subagent> and <subagent name=\"Scout\">list files</subagent>",
     "<bash> ls </bash>",
     "All steps are in place."}

\* what a callback may return where a file of the workspace is a symbolic link
\* to itself: the replies above, or a read of that file
RaisingReplies == SubagentReplies \cup {"<file_read>loop</file_read>"}

\* the world of a run: what subprocess.run does with a command, the files of
\* the workspace and those whose read raises
Worlds ==
    {[cmd |-> Exit(0, "ok\n"), fs |-> <<>>, unreadable |-> {}],
     [cmd |-> Exit(0, ""), fs |-> ("notes.txt" :> ""), unreadable |-> {}],
     [cmd |-> Exit(1, "boom\n"), fs |-> ("notes.txt" :> "data\n"), unreadable |-> {}],
     [cmd |-> Exit(1, ""), fs |-> ("notes.txt" :> "data\n"), unreadable |-> {"notes.txt"}],
     [cmd |-> [kind |-> "timeout", returncode |-> 0, output |-> ""],
      fs |-> <<>>, unreadable |-> {}],
     [cmd |-> [kind |-> "raise", returncode |-> 0,
               output |-> "[Errno 2] No such file or directory"],
      fs |-> ("notes.txt" :> "data\n"), unreadable |-> {}]}

\* examples/integration_demo.py, example_2_ralph_loop: max_iterations of its
\* config, and its callback mock_llm on its n-th call
DemoMaxIterations == 10
DemoCompleteAt == 3

MockLlm(n) ==
    IF n < DemoCompleteAt
      THEN "Working on task... (iteration " \o ToString(n) \o ")"
      ELSE "Task completed successfully! TASK_COMPLETE"

Parsed == [o \in LLMOutputs \cup RaisingReplies |-> ParseActions(o)]

\* _parse_actions of an output
ParsedOf(output) == IF output \in DOMAIN Parsed THEN Parsed[output] ELSE ParseActions(output)

Signalled == [o \in LLMOutputs \cup RaisingReplies |-> CheckCompletion(o)]

\* _check_completion of an output
SignalledBy(output) ==
    IF output \in DOMAIN Signalled THEN Signalled[output] ELSE CheckCompletion(output)

(***************************************************************************)
(* State.                                                                  *)
(***************************************************************************)
VARIABLES
    pc,              \* "ralph": at the while of run_ralph_loop; "run": at the while of
                     \* Orchestrator.run; "actions": in its for loop; "done": returned;
                     \* "dispatch" / "dispatched": before / after a lone _execute_action
    config_max,      \* RalphLoopConfig.max_iterations
    orch_max,        \* Orchestrator.max_iterations
    extensions,      \* Orchestrator.extensions
    system_prompt,   \* Orchestrator.system_prompt
    max_tokens,      \* MemoryManager.max_tokens
    callback,        \* the LLM callback: "any" (returns any of LLMOutputs) or "mock_llm"
    fs, unreadable, cmd,   \* the world
    loops,           \* the paths of the workspace that are symbolic links to themselves
    messages,        \* MemoryManager.messages
    context,         \* Orchestrator.context (RunContext)
    iteration, completed, trajectory, result, sleeps,   \* locals of run_ralph_loop
    final_result,    \* what run_ralph_loop returned (None before)
    run_iteration, run_completed, results, llm_output, actions,   \* locals of run
    llm_calls,       \* callback invocations of the current run
    last_prompt,     \* the list handed to the callback on its latest invocation
    replies,         \* what the callback returned, call by call, since the start
    run_outputs,     \* the llm_output of each iteration of the current run
    run_errors,      \* the action.error texts dispatch left in the current run, each
                     \* with the number of callback invocations made before it
    dispatched,      \* the latest _execute_action: the action as returned, the indexes
                     \* asked and executed; None before the first of an iteration
    hook_calls,      \* the hooks and the callback invoked for the latest LLM call of
                     \* the top-level run, in the order of their invocation
    run_feedback,    \* messages the for loop of the current run appended to the memory
    adds,            \* add_message calls made on the memory under study
    prev_messages,   \* MemoryManager.messages as the latest add_message found it
    recent_added,    \* the messages the latest add_message calls appended (at most
                     \* KeepRecent of them, oldest first)
    max_depth, max_subagent_iterations, available_extensions,   \* SubagentExtension
    current_depth, call_trace,                                  \* SubagentExtension
    hook,            \* the latest on_llm_output of the SubagentExtension: its input, the
                     \* matches, the depth, trace length and callback count on entry
    pending,         \* the matches on_llm_output has still to go through
    modified_output, \* modified_output of on_llm_output
    spawned,         \* the call records on_llm_output has made so far, with their spans
    sub_match,       \* name, task and span of the spawn in progress
    sub_memory,      \* the memory the sub-orchestrator holds: "fresh" (sub_messages,
                     \* made by the spawn) or "parent" (messages)
    sub_messages,    \* messages of the MemoryManager the spawn constructed
    sub_context,     \* sub_orchestrator.context
    sub_iteration, sub_completed, sub_results, sub_output, sub_actions,  \* locals of
                     \* sub_orchestrator.run
    sub_prompt,      \* the list handed to the callback on the sub-run's latest call
    parent_snapshot  \* the parent's messages when the spawn began

world == <<fs, unreadable, cmd, loops>>
setup == <<config_max, orch_max, extensions, system_prompt, max_tokens, callback>>
ralph_locals == <<iteration, completed, trajectory, result, sleeps, final_result>>
run_locals == <<run_iteration, run_completed, results, llm_output, actions, llm_calls>>
history == <<last_prompt, replies, run_outputs, run_errors, hook_calls>>
memory_calls == <<adds, prev_messages, recent_added>>
subagent_setup == <<max_depth, max_subagent_iterations, available_extensions>>
hook_locals == <<hook, pending, modified_output, spawned>>
sub_run == <<sub_match, sub_memory, sub_messages, sub_context, sub_iteration, sub_completed,
             sub_results, sub_output, sub_actions, sub_prompt, parent_snapshot>>
subagent_vars == <<subagent_setup, current_depth, call_trace, hook_locals, sub_run>>
vars == <<pc, setup, world, messages, context, ralph_locals, run_locals, history, dispatched,
          run_feedback, memory_calls, subagent_vars>>

NoResult == [success |-> FALSE, iterations |-> 0, final_output |-> "", actions |-> <<>>]

\* an empty memory and an orchestrator that has not run yet
FreshState ==
    /\ messages = <<>>
    /\ context = EmptyContext
    /\ iteration = 0 /\ completed = FALSE /\ trajectory = <<>> /\ result = None /\ sleeps = 0
    /\ final_result = None
    /\ run_iteration = 0 /\ run_completed = FALSE /\ results = NoResult
    /\ llm_output = "" /\ llm_calls = 0
    /\ last_prompt = <<>> /\ replies = <<>> /\ run_outputs = <<>> /\ run_errors = <<>>
    /\ hook_calls = <<>>
    /\ dispatched = None
    /\ run_feedback = 0
    /\ adds = 0 /\ prev_messages = <<>> /\ recent_added = <<>>
    /\ current_depth = 0 /\ call_trace = <<>>
    /\ hook = None /\ pending = <<>> /\ modified_output = "" /\ spawned = <<>>
    /\ sub_match = None /\ sub_memory = "fresh" /\ sub_messages = <<>>
    /\ sub_context = EmptyContext
    /\ sub_iteration = 0 /\ sub_completed = FALSE /\ sub_results = NoResult
    /\ sub_output = "" /\ sub_actions = <<>> /\ sub_prompt = <<>> /\ parent_snapshot = <<>>

\* no SubagentExtension is registered
NoSubagent ==
    /\ max_depth = 0 /\ max_subagent_iterations = 0 /\ available_extensions = <<>>

\* the state of a freshly constructed orchestrator, before any call
Fresh ==
    /\ max_tokens = DefaultMaxTokens
    /\ FreshState

\* mutant: the inner cap is not the configured one
InnerMaxIterationsPlusOne(n) == n + 1

\* RalphOrchestrator.__init__: the max_iterations it hands to its Orchestrator,
\* for config.max_iterations = n
InnerMaxIterations(n) == n

\* RalphOrchestrator(llm_client, extensions, config, system_prompt) with
\* enable_notes=False was constructed and run_ralph_loop(Task) was entered
InitAny ==
    /\ pc = "ralph"
    /\ config_max \in 0..MaxIter
    /\ orch_max = InnerMaxIterations(config_max)
    /\ \E s \in Setups : extensions = s.extensions /\ system_prompt = s.system_prompt
    /\ callback = "any"
    /\ \E w \in Worlds : cmd = w.cmd /\ fs = w.fs /\ unreadable = w.unreadable
    /\ loops = {}
    /\ actions = <<>>
    /\ NoSubagent
    /\ Fresh

\* example_2_ralph_loop: mock_llm, no extensions, max_iterations=10
InitDemo ==
    /\ pc = "ralph"
    /\ config_max = DemoMaxIterations
    /\ orch_max = InnerMaxIterations(config_max)
    /\ extensions = <<>>
    /\ system_prompt = "You are a helpful assistant."
    /\ callback = "mock_llm"
    /\ cmd = Exit(0, "ok\n") /\ fs = <<>> /\ unreadable = {} /\ loops = {}
    /\ actions = <<>>
    /\ NoSubagent
    /\ Fresh

Init == InitAny \/ InitDemo

\* what the callback may return on its next call
Replies ==
    IF callback = "mock_llm" THEN {MockLlm(Len(replies) + 1)}
    ELSE IF callback = "delegating" THEN SubagentReplies
    ELSE IF callback = "raising" THEN RaisingReplies
    ELSE LLMOutputs

\* mutant: the test forgets the completed flag
RalphContinuesIgnoringCompleted == iteration < config_max

\* the while test of run_ralph_loop
RalphContinues == iteration < config_max /\ ~completed

\* mutant: the cap is off by one
RunContinuesInclusive == run_iteration <= orch_max /\ ~run_completed

\* the while test of Orchestrator.run
RunContinues == run_iteration < orch_max /\ ~run_completed

\* mutant: an empty parse is not taken as completion
NoActionsNever(parsed) == FALSE

\* `if not actions` of run
NoActions(parsed) == parsed = <<>>

\* mutant: only the promise stops the loop
StopsOnPromiseOnly(returned) == Contains(returned.final_output, CompletionPromise)

\* the two completion checks of run_ralph_loop after a call: the promise in
\* final_output, the success flag
Stops(returned) ==
    \/ Contains(returned.final_output, CompletionPromise)
    \/ returned.success

\* mutant: the loop sleeps after every outer iteration that did not complete
DelaysAlways == TRUE

\* `if iteration < self.config.max_iterations` before time.sleep
DelaysNext == iteration < config_max

\* mutant: every outer iteration starts on an empty memory
RunMemoryFresh(msgs) == <<>>

\* what the memory of the Orchestrator holds when run is entered, msgs being
\* what the outer iterations before left in it: RalphOrchestrator makes one
\* MemoryManager and one Orchestrator in __init__ and every run uses them
RunMemory(msgs) == msgs

\* run_ralph_loop enters its loop body and calls orchestrator.run(task), which
\* appends the task and initialises its locals
RalphIterate ==
    /\ pc = "ralph"
    /\ RalphContinues
    /\ iteration' = iteration + 1
    /\ messages' = AddMessage(RunMemory(messages), "user", Task, max_tokens)
    /\ run_iteration' = 0
    /\ run_completed' = FALSE
    /\ results' = NoResult
    /\ llm_output' = ""
    /\ actions' = <<>>
    /\ llm_calls' = 0
    /\ run_outputs' = <<>>
    /\ run_errors' = <<>>
    /\ dispatched' = None
    /\ run_feedback' = 0
    /\ pc' = "run"
    /\ UNCHANGED <<setup, world, context, completed, trajectory, result, sleeps, final_result,
                   last_prompt, replies, hook_calls, memory_calls, subagent_vars>>

\* one pass of the while of run up to the for loop: _prepare_messages, _call_llm,
\* _parse_actions, and the break when nothing was parsed
RunIterate ==
    /\ pc = "run"
    /\ RunContinues
    /\ \E reply \in Replies :
         LET prepared == PrepareMessages(extensions, messages, system_prompt)
             output == OutputChain(extensions, reply)
             parsed == ParsedOf(output)
         IN  /\ run_iteration' = run_iteration + 1
             /\ last_prompt' = prepared.formatted
             /\ llm_calls' = llm_calls + 1
             /\ replies' = Append(replies, reply)
             /\ llm_output' = output
             /\ run_outputs' = Append(run_outputs, output)
             /\ run_errors' = run_errors
             /\ hook_calls' =
                  HookCallsFrom("on_input_messages", extensions, 1, Len(extensions), messages)
                  \o <<CallbackCall(prepared.formatted, reply)>>
                  \o HookCallsFrom("on_llm_output", extensions, 1, Len(extensions), reply)
             /\ messages' = AddMessage(prepared.messages, "assistant", output, max_tokens)
             /\ dispatched' = None
             /\ IF NoActions(parsed)
                  THEN /\ run_completed' = TRUE
                       /\ results' = [results EXCEPT !.final_output = output]
                       /\ actions' = <<>>
                       /\ pc' = "run"
                  ELSE /\ run_completed' = run_completed
                       /\ results' = results
                       /\ actions' = parsed
                       /\ pc' = "actions"
    /\ UNCHANGED <<setup, world, context, ralph_locals, run_feedback, memory_calls, subagent_vars>>

\* one pass of the for loop of run: dispatch, record, feed back; on a completion
\* action or after the last action, the loop ends and _check_completion runs
RunAction ==
    /\ pc = "actions"
    /\ actions # <<>>
    /\ ~DispatchRaises(extensions, Head(actions), loops)
    /\ LET action == Head(actions)
           d == ExecuteAction(extensions, action, context, fs, unreadable, cmd)
           executed == d.out.action
           is_completion == action.type = "completion"
           loop_ends == is_completion \/ Tail(actions) = <<>>
           signalled == loop_ends /\ SignalledBy(llm_output)
       IN  /\ dispatched' = [action |-> executed, asked |-> d.asked,
                             executed_by |-> d.executed_by]
           /\ context' = d.out.ctx
           /\ fs' = d.out.fs
           /\ run_feedback' = IF Truthy(executed.result) \/ Truthy(executed.error)
                                 THEN run_feedback + 1 ELSE run_feedback
           /\ messages' =
                IF Truthy(executed.result)
                  THEN AddMessage(messages, "user",
                                  "<result>" \o executed.result[1] \o "</result>", max_tokens)
                ELSE IF Truthy(executed.error)
                  THEN AddMessage(messages, "user",
                                  "<error>" \o executed.error[1] \o "</error>", max_tokens)
                ELSE messages
           /\ results' =
                [results EXCEPT
                   !.actions = Append(@, [type |-> action.type,
                                          success |-> ~IsSet(executed.error)]),
                   !.final_output = IF signalled THEN llm_output
                                    ELSE IF is_completion THEN executed.content
                                    ELSE @]
           /\ run_completed' = (run_completed \/ is_completion \/ signalled)
           /\ actions' = IF loop_ends THEN <<>> ELSE Tail(actions)
           /\ pc' = IF loop_ends THEN "run" ELSE "actions"
           /\ run_errors' = IF IsSet(executed.error)
                               THEN Append(run_errors, [error |-> executed.error[1],
                                                        calls |-> llm_calls])
                               ELSE run_errors
    /\ UNCHANGED <<setup, unreadable, cmd, loops, ralph_locals, run_iteration, llm_output,
                   llm_calls, last_prompt, replies, run_outputs, hook_calls, memory_calls,
                   subagent_vars>>

\* _execute_action raises in the for loop of run: nothing in run or in
\* run_ralph_loop catches it, so the exception leaves both and no result is
\* returned
RunRaise ==
    /\ pc = "actions"
    /\ actions # <<>>
    /\ DispatchRaises(extensions, Head(actions), loops)
    /\ pc' = "raised"
    /\ UNCHANGED <<setup, world, messages, context, ralph_locals, run_locals, history,
                   dispatched, run_feedback, memory_calls, subagent_vars>>

RECURSIVE SumIterations(_)
SumIterations(traj) ==
    IF traj = <<>> THEN 0 ELSE Head(traj).result.iterations + SumIterations(Tail(traj))

\* run leaves its while and returns; run_ralph_loop logs the result (the
\* timestamp is left out), checks the promise and the success flag, and sleeps
\* when it goes on
RunReturn ==
    /\ pc = "run"
    /\ ~RunContinues
    /\ LET returned == [results EXCEPT !.success = run_completed, !.iterations = run_iteration]
           stop == Stops(returned)
       IN  /\ results' = returned
           /\ result' = Some(returned)
           /\ trajectory' = Append(trajectory, [iteration |-> iteration, result |-> returned])
           /\ completed' = IF stop THEN TRUE ELSE completed
           /\ sleeps' = IF ~stop /\ DelaysNext THEN sleeps + 1 ELSE sleeps
    /\ pc' = "ralph"
    /\ UNCHANGED <<setup, world, messages, context, iteration, final_result, run_iteration,
                   run_completed, llm_output, actions, llm_calls, history, dispatched,
                   run_feedback, memory_calls, subagent_vars>>

\* run_ralph_loop leaves its while and returns final_result
RalphReturn ==
    /\ pc = "ralph"
    /\ ~RalphContinues
    /\ final_result' = Some([success |-> completed,
                             ralph_iterations |-> iteration,
                             total_orchestrator_iterations |-> SumIterations(trajectory),
                             completion_promise_found |-> completed])
    /\ pc' = "done"
    /\ UNCHANGED <<setup, world, messages, context, iteration, completed, trajectory, result,
                   sleeps, run_locals, history, dispatched, run_feedback, memory_calls, subagent_vars>>

Next == RalphIterate \/ RunIterate \/ RunAction \/ RunReturn \/ RalphReturn

Spec == Init /\ [][Next]_vars

(***************************************************************************)
(* Dispatch on its own: Orchestrator._execute_action applied once to an    *)
(* action, for every short extension list.                                 *)
(***************************************************************************)
\* longest extension list drawn
MaxExtensions == 2

ExtensionLists == UNION {[1..n -> ExtensionKinds] : n \in 0..MaxExtensions}

SeqRange(seq) == {seq[k] : k \in 1..Len(seq)}

\* outputs whose parsed actions are dispatched
DispatchSamples ==
    {"<bash> ls </bash><thinking> plan </thinking> finished",
     "<bash>rm -rf /</bash><file_read>notes.txt</file_read><file_read>../secret</file_read>",
     "<file_edit path=\"notes.txt\">new</file_edit><file_edit path=\"/etc/passwd\">x</file_edit>",
     "<search pattern=\"*.txt\"><search pattern=\"*.py\">"}

\* actions as the parser builds them, and file actions carrying the metadata
\* keys the extensions read besides path
DispatchActions ==
    UNION {SeqRange(ParseActions(o)) : o \in DispatchSamples}
    \cup {[Action("file_edit", "more\n", "notes.txt") EXCEPT !.operation = op] :
            op \in {"create", "append", "delete", "patch", "rename"}}
    \cup {[Action("file_edit", "<<<SEARCH>>>data<<<REPLACE>>>DATA", "notes.txt")
             EXCEPT !.operation = "patch"],
          Action("file_edit", "x", "")}
    \cup {[Action("file_search", "data", "") EXCEPT !.search_type = st] :
            st \in {"content", "regex"}}

InitDispatch ==
    /\ pc = "dispatch"
    /\ config_max = 0 /\ orch_max = 0
    /\ extensions \in ExtensionLists
    /\ system_prompt = ""
    /\ callback = "any"
    /\ \E w \in Worlds : cmd = w.cmd /\ fs = w.fs /\ unreadable = w.unreadable
    /\ loops = {}
    /\ \E a \in DispatchActions : actions = <<a>>
    /\ NoSubagent
    /\ Fresh

\* self._execute_action(action)
Dispatch ==
    /\ pc = "dispatch"
    /\ ~DispatchRaises(extensions, Head(actions), loops)
    /\ LET d == ExecuteAction(extensions, Head(actions), context, fs, unreadable, cmd)
       IN  /\ dispatched' = [action |-> d.out.action, asked |-> d.asked,
                             executed_by |-> d.executed_by]
           /\ context' = d.out.ctx
           /\ fs' = d.out.fs
    /\ pc' = "dispatched"
    /\ UNCHANGED <<setup, unreadable, cmd, loops, messages, ralph_locals, run_locals, history,
                   run_feedback, memory_calls, subagent_vars>>

NextDispatch == Dispatch

SpecDispatch == InitDispatch /\ [][NextDispatch]_vars
(***************************************************************************)
(* MemoryManager on its own: add_message called again and again on one     *)
(* memory, for a small budget, two middling ones and the default budget.   *)
(***************************************************************************)
\* most add_message calls of a behaviour
MaxAdds == 14

\* MemoryManager(max_tokens=...)
MemoryBudgets == {5, 50, 143, DefaultMaxTokens}

\* the (role, content) pairs add_message is called with
MemoryInputs ==
    {[role |-> "assistant", content |-> "<bash>ls</bash>"],
     [role |-> "user", content |-> "<error>Command failed with exit code 1</error>"]}

\* seq[-n:]
LastN(seq, n) == IF Len(seq) <= n THEN seq ELSE SubSeq(seq, Len(seq) - n + 1, Len(seq))

InitMemory ==
    /\ pc = "memory"
    /\ config_max = 0 /\ orch_max = 0
    /\ extensions = <<>>
    /\ system_prompt = ""
    /\ callback = "any"
    /\ cmd = Exit(0, "") /\ fs = <<>> /\ unreadable = {} /\ loops = {}
    /\ actions = <<>>
    /\ max_tokens \in MemoryBudgets
    /\ NoSubagent
    /\ FreshState

\* memory_manager.add_message(role, content)
MemoryAdd ==
    /\ pc = "memory"
    /\ adds < MaxAdds
    /\ \E m \in MemoryInputs :
         /\ messages' = AddMessage(messages, m.role, m.content, max_tokens)
         /\ recent_added' = LastN(Append(recent_added, Message(m.role, m.content)), KeepRecent)
    /\ prev_messages' = messages
    /\ adds' = adds + 1
    /\ UNCHANGED <<pc, setup, world, context, ralph_locals, run_locals, history, dispatched,
                   run_feedback, subagent_vars>>

NextMemory == MemoryAdd

SpecMemory == InitMemory /\ [][NextMemory]_vars

(***************************************************************************)
(* Delegation: run_ralph_loop on an Orchestrator whose last extension is a *)
(* SubagentExtension; available_extensions is the Orchestrator's own list, *)
(* as create_subagent_enabled_agent passes it.                             *)
(***************************************************************************)
\* greatest max_depth configured
MaxDepth == 1

\* greatest max_iterations of the delegating agent's RalphLoopConfig
MaxOuter == 1

SubagentExtensionList == <<"planning", "bash", "subagent">>

InitSubagent ==
    /\ pc = "ralph"
    /\ config_max \in 1..MaxOuter
    /\ orch_max = InnerMaxIterations(config_max)
    /\ extensions = SubagentExtensionList
    /\ system_prompt = ""
    /\ callback = "delegating"
    /\ cmd = Exit(0, "ok\n") /\ fs = <<>> /\ unreadable = {} /\ loops = {}
    /\ actions = <<>>
    /\ max_depth \in 0..MaxDepth
    /\ max_subagent_iterations \in 1..MaxIter
    /\ available_extensions = extensions
    /\ Fresh

\* index of the SubagentExtension in the extension list
SubagentAt(exts) == CHOOSE k \in 1..Len(exts) : exts[k] = "subagent"

\* mutant: the sub-orchestrator is given the parent's memory
SpawnMemoryShared == "parent"

\* `sub_memory = MemoryManager()` handed to the sub-orchestrator
SpawnMemory == "fresh"

\* the messages of the memory the sub-orchestrator holds
SubMessages == IF sub_memory = "parent" THEN messages ELSE sub_messages

\* the sub-orchestrator's memory becomes new
StoreSub(new) ==
    IF sub_memory = "parent"
      THEN messages' = new /\ sub_messages' = sub_messages
      ELSE sub_messages' = new /\ messages' = messages

\* the while test of sub_orchestrator.run
SubContinues == sub_iteration < max_subagent_iterations /\ ~sub_completed

\* one pass of the while of the parent's run up to the SubagentExtension's
\* on_llm_output: _prepare_messages, the callback, the hooks registered before
\* it, and on_llm_output as far as its first spawn
ParentCall ==
    /\ pc = "run"
    /\ RunContinues
    /\ \E reply \in Replies :
         LET prepared == PrepareMessages(extensions, messages, system_prompt)
             k == SubagentAt(extensions)
             output == OutputChain(SubSeq(extensions, 1, k - 1), reply)
             matches == SubagentMatches(output, 1)
         IN  /\ run_iteration' = run_iteration + 1
             /\ last_prompt' = prepared.formatted
             /\ llm_calls' = llm_calls + 1
             /\ replies' = Append(replies, reply)
             /\ messages' = prepared.messages
             /\ dispatched' = None
             /\ hook_calls' =
                  HookCallsFrom("on_input_messages", extensions, 1, Len(extensions), messages)
                  \o <<CallbackCall(prepared.formatted, reply)>>
                  \o HookCallsFrom("on_llm_output", extensions, 1, k - 1, reply)
             /\ hook' = [input |-> output, matches |-> matches, depth |-> current_depth,
                         trace_len |-> Len(call_trace), callback_calls |-> Len(replies) + 1,
                         returned |-> FALSE]
             /\ spawned' = <<>>
             /\ IF matches = <<>>
                  THEN modified_output' = output /\ pending' = <<>>
                ELSE IF DepthLimitReached(current_depth, max_depth)
                  THEN /\ modified_output' = ReplaceAll(output, matches[1].span,
                                                        DepthLimitMarker(max_depth))
                       /\ pending' = <<>>
                ELSE modified_output' = output /\ pending' = matches
    /\ pc' = "spawn"
    /\ UNCHANGED <<setup, world, context, ralph_locals, run_completed, results, llm_output,
                   actions, run_outputs, run_errors, run_feedback, memory_calls,
                   subagent_setup, current_depth, call_trace, sub_run>>

\* _spawn_subagent up to the first pass of the sub-run: the memory, the
\* sub-orchestrator, the depth, and run(task) appending the task
Spawn ==
    /\ pc = "spawn"
    /\ pending # <<>>
    /\ LET match == Head(pending)
           task == Strip(match.task)
       IN  /\ sub_match' = [name |-> match.name, task |-> task, span |-> match.span]
           /\ sub_memory' = SpawnMemory
           /\ IF sub_memory' = "parent"
                THEN /\ messages' = AddMessage(messages, "user", task, max_tokens)
                     /\ sub_messages' = <<>>
                ELSE /\ sub_messages' = AddMessage(<<>>, "user", task, DefaultMaxTokens)
                     /\ messages' = messages
    /\ parent_snapshot' = messages
    /\ current_depth' = current_depth + 1
    /\ sub_context' = EmptyContext
    /\ sub_iteration' = 0
    /\ sub_completed' = FALSE
    /\ sub_results' = NoResult
    /\ sub_output' = ""
    /\ sub_actions' = <<>>
    /\ sub_prompt' = <<>>
    /\ pc' = "sub_run"
    /\ UNCHANGED <<setup, world, context, ralph_locals, run_locals, history, dispatched,
                   run_feedback, memory_calls, subagent_setup, call_trace, hook_locals>>

\* one pass of the while of the sub-run up to its for loop
SubIterate ==
    /\ pc = "sub_run"
    /\ SubContinues
    /\ \E reply \in Replies :
         LET exts == SubExtensions(available_extensions)
             prepared == PrepareMessages(exts, SubMessages, SubSystemPrompt(sub_match.name))
             output == OutputChain(exts, reply)
             parsed == ParsedOf(output)
         IN  /\ sub_iteration' = sub_iteration + 1
             /\ sub_prompt' = prepared.formatted
             /\ replies' = Append(replies, reply)
             /\ sub_output' = output
             /\ StoreSub(AddMessage(prepared.messages, "assistant", output, DefaultMaxTokens))
             /\ IF NoActions(parsed)
                  THEN /\ sub_completed' = TRUE
                       /\ sub_results' = [sub_results EXCEPT !.final_output = output]
                       /\ sub_actions' = <<>>
                       /\ pc' = "sub_run"
                  ELSE /\ sub_completed' = sub_completed
                       /\ sub_results' = sub_results
                       /\ sub_actions' = parsed
                       /\ pc' = "sub_actions"
    /\ UNCHANGED <<setup, world, context, ralph_locals, run_locals, last_prompt, run_outputs,
                   run_errors, hook_calls, dispatched, run_feedback, memory_calls, subagent_setup,
                   current_depth, call_trace, hook_locals, sub_match, sub_memory, sub_context,
                   parent_snapshot>>

\* one pass of the for loop of the sub-run
SubAction ==
    /\ pc = "sub_actions"
    /\ sub_actions # <<>>
    /\ ~DispatchRaises(SubExtensions(available_extensions), Head(sub_actions), loops)
    /\ LET action == Head(sub_actions)
           d == ExecuteAction(SubExtensions(available_extensions), action, sub_context,
                              fs, unreadable, cmd)
           executed == d.out.action
           is_completion == action.type = "completion"
           loop_ends == is_completion \/ Tail(sub_actions) = <<>>
           signalled == loop_ends /\ SignalledBy(sub_output)
       IN  /\ sub_context' = d.out.ctx
           /\ fs' = d.out.fs
           /\ IF Truthy(executed.result)
                THEN StoreSub(AddMessage(SubMessages, "user",
                                         "<result>" \o executed.result[1] \o "</result>",
                                         DefaultMaxTokens))
              ELSE IF Truthy(executed.error)
                THEN StoreSub(AddMessage(SubMessages, "user",
                                         "<error>" \o executed.error[1] \o "</error>",
                                         DefaultMaxTokens))
              ELSE UNCHANGED <<messages, sub_messages>>
           /\ sub_results' =
                [sub_results EXCEPT
                   !.actions = Append(@, [type |-> action.type,
                                          success |-> ~IsSet(executed.error)]),
                   !.final_output = IF signalled THEN sub_output
                                    ELSE IF is_completion THEN executed.content
                                    ELSE @]
           /\ sub_completed' = (sub_completed \/ is_completion \/ signalled)
           /\ sub_actions' = IF loop_ends THEN <<>> ELSE Tail(sub_actions)
           /\ pc' = IF loop_ends THEN "sub_run" ELSE "sub_actions"
    /\ UNCHANGED <<setup, unreadable, cmd, loops, context, ralph_locals, run_locals, history,
                   dispatched, run_feedback, memory_calls, subagent_setup, current_depth,
                   call_trace, hook_locals, sub_match, sub_memory, sub_iteration, sub_output,
                   sub_prompt, parent_snapshot>>

\* the end of _spawn_subagent for the record call: the trace, the finally
\* clause, and the replacement on_llm_output makes with the record; outcome
\* tells how the sub-run ended ("success", "failure" or "raised")
SpawnEnds(call, outcome) ==
    /\ call_trace' = Append(call_trace, call)
    /\ current_depth' = Finally(current_depth)
    /\ modified_output' = Splice(modified_output, sub_match.span, FormatResult(call))
    /\ spawned' = Append(spawned, [call |-> call, span |-> sub_match.span,
                                   outcome |-> outcome])
    /\ pending' = Tail(pending)
    /\ pc' = "spawn"

\* the sub-run leaves its while and returns
SubReturn ==
    /\ pc = "sub_run"
    /\ ~SubContinues
    /\ LET returned == [sub_results EXCEPT !.success = sub_completed,
                                            !.iterations = sub_iteration]
       IN  /\ sub_results' = returned
           /\ SpawnEnds(SubagentCallOf(sub_match.name, sub_match.task, returned, call_trace),
                        IF returned.success THEN "success" ELSE "failure")
    /\ UNCHANGED <<setup, world, messages, context, ralph_locals, run_locals, history,
                   dispatched, run_feedback, memory_calls, subagent_setup, hook, sub_match,
                   sub_memory, sub_messages, sub_context, sub_iteration, sub_completed,
                   sub_output, sub_actions, sub_prompt, parent_snapshot>>

\* the callback raises during the sub-run: the except clause of _spawn_subagent
SubRaise ==
    /\ pc = "sub_run"
    /\ SubContinues
    /\ SpawnEnds(SubagentCallError(sub_match.name, sub_match.task, "LLM unavailable",
                                   call_trace), "raised")
    /\ UNCHANGED <<setup, world, messages, context, ralph_locals, run_locals, history,
                   dispatched, run_feedback, memory_calls, subagent_setup, hook, sub_run>>

\* _execute_action raises in the for loop of the sub-run: the exception leaves
\* sub_orchestrator.run and the except clause of _spawn_subagent takes it
SubActionRaise ==
    /\ pc = "sub_actions"
    /\ sub_actions # <<>>
    /\ DispatchRaises(SubExtensions(available_extensions), Head(sub_actions), loops)
    /\ SpawnEnds(SubagentCallError(sub_match.name, sub_match.task,
                                   RaisedText(Head(sub_actions)), call_trace), "raised")
    /\ UNCHANGED <<setup, world, messages, context, ralph_locals, run_locals, history,
                   dispatched, run_feedback, memory_calls, subagent_setup, hook, sub_run>>

\* on_llm_output returns; the hooks registered after it, add_message,
\* _parse_actions, and the break when nothing was parsed
ParentResume ==
    /\ pc = "spawn"
    /\ pending = <<>>
    /\ LET k == SubagentAt(extensions)
           output == OutputChain(SubSeq(extensions, k + 1, Len(extensions)), modified_output)
           parsed == ParsedOf(output)
       IN  /\ hook' = [hook EXCEPT !.returned = TRUE]
           /\ hook_calls' =
                hook_calls
                \o <<[hook |-> "on_llm_output", ext |-> k, given |-> hook.input,
                      returned |-> modified_output]>>
                \o HookCallsFrom("on_llm_output", extensions, k + 1, Len(extensions),
                                 modified_output)
           /\ llm_output' = output
           /\ run_outputs' = Append(run_outputs, output)
           /\ messages' = AddMessage(messages, "assistant", output, max_tokens)
           /\ IF NoActions(parsed)
                THEN /\ run_completed' = TRUE
                     /\ results' = [results EXCEPT !.final_output = output]
                     /\ actions' = <<>>
                     /\ pc' = "run"
                ELSE /\ run_completed' = run_completed
                     /\ results' = results
                     /\ actions' = parsed
                     /\ pc' = "actions"
    /\ UNCHANGED <<setup, world, context, ralph_locals, run_iteration, llm_calls, last_prompt,
                   replies, run_errors, dispatched, run_feedback, memory_calls,
                   subagent_setup, current_depth, call_trace, pending, modified_output,
                   spawned, sub_run>>

\* SubagentExtension.clear_trace, called once run_ralph_loop has returned (the
\* start of a new session); what was observed of the ended session's hooks is
\* dropped with the trace
ClearTrace ==
    /\ pc = "done"
    /\ call_trace # <<>>
    /\ call_trace' = <<>>
    /\ current_depth' = 0
    /\ hook' = None
    /\ spawned' = <<>>
    /\ UNCHANGED <<pc, setup, world, messages, context, ralph_locals, run_locals, history,
                   dispatched, run_feedback, memory_calls, subagent_setup, pending,
                   modified_output, sub_run>>

NextSubagent ==
    \/ RalphIterate \/ ParentCall \/ Spawn \/ SubIterate \/ SubAction \/ SubReturn
    \/ SubRaise \/ ParentResume \/ RunAction \/ RunReturn \/ RalphReturn \/ ClearTrace

SpecSubagent == InitSubagent /\ [][NextSubagent]_vars

(***************************************************************************)
(* Delegation in a workspace where a file is a symbolic link to itself:    *)
(* an execute raises, in the parent's run and in a sub-run (the callback   *)
(* itself answers every call).                                             *)
(***************************************************************************)
RaisingExtensionList == <<"planning", "bash", "file_read", "subagent">>

InitRaise ==
    /\ pc = "ralph"
    /\ config_max \in 1..MaxOuter
    /\ orch_max = InnerMaxIterations(config_max)
    /\ extensions = RaisingExtensionList
    /\ system_prompt = ""
    /\ callback = "raising"
    /\ cmd = Exit(0, "ok\n") /\ fs = <<>> /\ unreadable = {} /\ loops = {"loop"}
    /\ actions = <<>>
    /\ max_depth \in 0..MaxDepth
    /\ max_subagent_iterations \in 1..MaxIter
    /\ available_extensions = extensions
    /\ Fresh

NextRaise ==
    \/ RalphIterate \/ ParentCall \/ Spawn \/ SubIterate \/ SubAction \/ SubActionRaise
    \/ SubReturn \/ ParentResume \/ RunAction \/ RunRaise \/ RunReturn \/ RalphReturn
    \/ ClearTrace

SpecRaise == InitRaise /\ [][NextRaise]_vars

(***************************************************************************)
(* Claims.                                                                 *)
(***************************************************************************)
Returned == result[1]
Final == final_result[1]
AfterOuterCall == pc \in {"ralph", "done"} /\ result # None
PromiseIn(text) == Contains(text, CompletionPromise)

\* C1 (as stated): the Ralph loop never makes more than config.max_iterations
\* outer iterations, and when no reply of the callback held the completion
\* promise, the returned result has success = false.
C1_NoPromiseMeansFailure ==
    /\ iteration <= config_max
    /\ (pc = "done" /\ \A k \in 1..Len(replies) : ~PromiseIn(replies[k])) => ~Final.success

\* C2 (as stated): in the demo configuration (mock_llm, which emits the promise
\* on its third call, no extensions, max_iterations=10) run_ralph_loop reports
\* ralph_iterations = 3 and success = true.
C2_DemoTakesThreeIterations ==
    (pc = "done" /\ callback = "mock_llm")
        => (Final.ralph_iterations = DemoCompleteAt /\ Final.success)

\* C3 (as stated): when any LLM output of an outer iteration holds the promise,
\* with or without action tags, the loop has stopped after that outer iteration.
C3_AnyOutputWithPromiseStops ==
    (AfterOuterCall /\ \E k \in 1..Len(run_outputs) : PromiseIn(run_outputs[k])) => completed

\* C3 (amended): when the final_output of an outer iteration's run holds the
\* promise, the loop stops after that iteration (no further run is started) and
\* run_ralph_loop returns success = true.
C3_FinalOutputWithPromiseStops ==
    (result # None /\ PromiseIn(Returned.final_output))
        => /\ completed
           /\ AfterOuterCall
           /\ Len(trajectory) = iteration
           /\ pc = "done" => (Final.success /\ Final.ralph_iterations = iteration)

C3_Witness ==
    /\ pc = "done"
    /\ result # None
    /\ PromiseIn(Returned.final_output)
    /\ iteration = 2

CompletionSignal(output) ==
    \/ ParsedOf(output) = <<>>
    \/ \E k \in 1..Len(ParsedOf(output)) : ParsedOf(output)[k].type = "completion"
    \/ SignalledBy(output)

\* C5: a run makes at most max_iterations LLM calls and returns iterations <=
\* max_iterations; it returns success = false exactly when the ceiling was
\* reached and no output carried a completion signal.
C5_RunBoundedAndExhaustion ==
    /\ llm_calls <= orch_max
    /\ AfterOuterCall
         => /\ Returned.iterations <= orch_max
            /\ Returned.iterations = llm_calls
            /\ ~Returned.success
                 <=> /\ Returned.iterations = orch_max
                     /\ \A k \in 1..Len(run_outputs) : ~CompletionSignal(run_outputs[k])

C5_Witness ==
    /\ AfterOuterCall
    /\ ~Returned.success
    /\ Returned.iterations = orch_max
    /\ orch_max >= 2

\* C6: an output that parses to zero actions is the last of its run: nothing is
\* dispatched for it, no further LLM call follows, and the run returns
\* success = true with that output as final_output.
C6_NoActionsCompletes ==
    \A k \in 1..Len(run_outputs) :
        ParsedOf(run_outputs[k]) = <<>>
            => /\ k = Len(run_outputs)
               /\ llm_calls = k
               /\ dispatched = None
               /\ pc # "actions"
               /\ pc = "run" => (run_completed /\ results.final_output = run_outputs[k])
               /\ AfterOuterCall
                    => /\ Returned.success
                       /\ Returned.final_output = run_outputs[k]
                       /\ Returned.iterations = k

C6_Witness ==
    /\ AfterOuterCall
    /\ Len(run_outputs) = 2
    /\ ParsedOf(run_outputs[2]) = <<>>
    /\ Returned.success

Handlers == {k \in 1..Len(extensions) : CanHandle(extensions[k], dispatched.action)}

\* C7: dispatch runs execute on exactly the lowest-indexed extension whose
\* can_handle is true, and on none when no extension can handle the action.
C7_FirstHandlerOnly ==
    pc = "dispatched"
        => dispatched.executed_by = IF Handlers = {} THEN <<>> ELSE <<Min(Handlers)>>

C7_Witness ==
    /\ pc = "dispatched"
    /\ Cardinality(Handlers) = 2
    /\ dispatched.executed_by = <<1>>

\* C8: an action no extension claims gets action.error and no result, its
\* <error> message is the one appended to memory, it is recorded with
\* success = false, and the run goes on: it is completed only by a completion
\* signal, and otherwise the next iteration is taken while under the cap.
C8_UnroutableIsRecoverable ==
    (dispatched # None /\ dispatched.executed_by = <<>> /\ pc # "dispatched")
        => LET a == dispatched.action
           IN  /\ IsSet(a.error) /\ ~IsSet(a.result)
               /\ messages # <<>>
               /\ messages[Len(messages)].role = "user"
               /\ messages[Len(messages)].content = "<error>" \o a.error[1] \o "</error>"
               /\ results.actions # <<>>
               /\ results.actions[Len(results.actions)] = [type |-> a.type, success |-> FALSE]
               /\ run_completed => (a.type = "completion" \/ SignalledBy(llm_output))
               /\ (pc = "run" /\ ~run_completed /\ run_iteration < orch_max)
                    => ENABLED RunIterate

C8_Witness ==
    /\ dispatched # None
    /\ dispatched.executed_by = <<>>
    /\ pc = "run"
    /\ ~run_completed
    /\ run_iteration < orch_max

\* C9 (as stated): after an action was dispatched, exactly one of action.result
\* and action.error is set.
C9_ExactlyOneOfResultAndError ==
    pc = "dispatched" => (IsSet(dispatched.action.result) # IsSet(dispatched.action.error))

HoldsError(m, e) == m.role = "user" /\ Contains(m.content, e)

\* C10 (as stated): every error a dispatched action ended with is in a user
\* message of the memory, and in the list handed to the callback on the next
\* invocation of the same run.
C10_ErrorReachesNextCall ==
    \A k \in 1..Len(run_errors) :
        /\ \E i \in 1..Len(messages) : HoldsError(messages[i], run_errors[k].error)
        /\ run_errors[k].calls < llm_calls
             => \E i \in 1..Len(last_prompt) : HoldsError(last_prompt[i], run_errors[k].error)

\* what the latest add_message appended to, with the message it appended
Appended == Append(prev_messages, recent_added[Len(recent_added)])

\* the estimate of msgs exceeds max_tokens * compression_threshold
OverBudget(msgs) == EstimateTokens(msgs) * CompressionDen > max_tokens * CompressionNum

\* msgs is one synthetic message for all but the last KeepRecent of appended,
\* followed by those last KeepRecent
CompressedForm(msgs, appended) ==
    LET n == Len(appended)
    IN  /\ Len(msgs) = KeepRecent + 1
        /\ msgs[1].compressed
        /\ msgs[1].original_count = n - KeepRecent
        /\ \A i \in 1..KeepRecent : msgs[i + 1] = appended[n - KeepRecent + i]

\* C11 (as claimed): after every add_message that leaves the estimate over the
\* budget, for every length n > 5 the sequence is one compressed message with
\* original_count = n - 5 followed by the last 5 messages
C11_CompressedWheneverOverBudget ==
    adds > 0 =>
      (OverBudget(Appended) /\ Len(Appended) > KeepRecent
         => CompressedForm(messages, Appended))

\* C11 (amended): after every add_message, the sequence is the compressed form
\* exactly when the estimate is over the budget and the sequence holds at least
\* 10 messages; otherwise it is the old sequence with the message appended
C11_CompressedWhenOverBudgetAndLong ==
    adds > 0 =>
      IF OverBudget(Appended) /\ Len(Appended) >= MinCompressLen
        THEN CompressedForm(messages, Appended)
        ELSE messages = Appended

C11_Witness ==
    /\ adds > 0
    /\ OverBudget(Appended)
    /\ Len(Appended) > MinCompressLen
    /\ Len(messages) = KeepRecent + 1
    /\ messages[1].compressed

\* C12: after every add_message with at least 5 messages added so far, the
\* last 5 elements of the sequence are the 5 most recently added messages, in
\* order, with the same role and content and compressed = false
C12_RecentFiveKept ==
    adds >= KeepRecent =>
      /\ Len(messages) >= KeepRecent
      /\ LastN(messages, KeepRecent) = recent_added
      /\ \A i \in 1..KeepRecent : ~LastN(messages, KeepRecent)[i].compressed

C12_Witness ==
    /\ adds >= KeepRecent
    /\ Len(messages) = KeepRecent + 1
    /\ messages[1].compressed
    /\ messages[1].original_count > KeepRecent

\* new is old with one message appended at the end
AppendsOne(old, new) ==
    /\ Len(new) = Len(old) + 1
    /\ \A i \in 1..Len(old) : new[i] = old[i]

\* new is what compression makes of old with one message appended
CompressesBatch(old, new) ==
    /\ new # <<>>
    /\ Len(old) + 1 >= MinCompressLen
    /\ new = CompressHistory(Append(old, new[Len(new)]))

\* C13: during a run the stored sequence changes only by one message appended
\* at its end or by a batch compression; preparing the outbound list (the
\* on_input_messages chain, PlanningExtension included) leaves it as it was
C13_AppendOnlyOutsideCompression ==
    [][\/ messages' = messages
       \/ AppendsOne(messages, messages')
       \/ CompressesBatch(messages, messages')]_vars

\* C16 (as claimed): the inner cap can be configured to differ from the outer
\* cap, the outer calls never exceed the outer cap and the LLM calls of one
\* outer call never exceed the inner cap
C16_CapsIndependentAndBothApply ==
    /\ \E n \in 0..MaxIter : InnerMaxIterations(n) # n
    /\ iteration <= config_max
    /\ llm_calls <= orch_max

\* C16 (amended): the two counters are separate but both caps are the one
\* config.max_iterations; the outer calls never exceed it and neither do the
\* LLM calls (nor the iterations) of one outer call
C16_OneCapBoundsBothLoops ==
    /\ orch_max = config_max
    /\ iteration <= config_max
    /\ llm_calls <= orch_max
    /\ run_iteration <= orch_max

C16_Witness ==
    /\ config_max > 1
    /\ iteration = config_max
    /\ llm_calls = orch_max
    /\ pc = "done"

\* the user message the for loop of run appends for an executed action
Wraps(m, action) ==
    /\ m.role = "user"
    /\ \/ IsSet(action.result) /\ m.content = "<result>" \o action.result[1] \o "</result>"
       \/ IsSet(action.error) /\ m.content = "<error>" \o action.error[1] \o "</error>"

\* C17: every dispatched action gets exactly one user message appended to the
\* memory, wrapping its result or its error, so the messages appended for
\* actions in a run are as many as the entries of the result's actions list
C17_OneMessagePerAction ==
    /\ run_feedback = Len(results.actions)
    /\ dispatched # None =>
         /\ messages # <<>>
         /\ Wraps(messages[Len(messages)], dispatched.action)

\* the parser appended a Completion action for the output
ParserSignalled(output) ==
    \E i \in 1..Len(ParsedOf(output)) : ParsedOf(output)[i].type = "completion"

\* C18: for every output that parses to at least one action, the check after
\* the for loop marks the run completed exactly when the parser appended a
\* Completion action (the two use the same phrases)
C18_PostCheckSameAsParser ==
    (pc = "run" /\ dispatched # None /\ ParsedOf(llm_output) # <<>>)
      => (SignalledBy(llm_output) <=> ParserSignalled(llm_output))

InSubRun == pc \in {"sub_run", "sub_actions"}

\* the latest on_llm_output was entered at or over the depth limit
HookAtLimit == hook # None /\ hook.depth >= max_depth

\* C14: current_depth never exceeds max_depth, and an on_llm_output entered
\* with current_depth >= max_depth constructs no sub-orchestrator, makes no
\* callback call and appends no SubagentCall
C14_DepthBoundedNoSpawnAtLimit ==
    /\ current_depth <= max_depth
    /\ HookAtLimit =>
         /\ ~InSubRun
         /\ spawned = <<>>
         /\ Len(call_trace) = hook.trace_len
         /\ Len(replies) = hook.callback_calls

C14_Witness ==
    /\ HookAtLimit
    /\ Len(hook.matches) = 2
    /\ hook.returned
    /\ pc = "done"

\* C15: a spawn runs on a memory of its own that starts empty: through the
\* sub-run the parent's messages stay as they were when the spawn began, the
\* sub-run's memory begins with the delegated task, and the list handed to the
\* callback for the sub-run is the sub system prompt followed by messages of
\* the sub-run's memory only
C15_SpawnMemoryIsolated ==
    /\ InSubRun =>
         /\ messages = parent_snapshot
         /\ sub_messages # <<>>
         /\ sub_messages[1] = Message("user", sub_match.task)
         /\ sub_prompt # <<>> =>
              /\ sub_prompt[1] = [role |-> "system",
                                  content |-> SubSystemPrompt(sub_match.name)]
              /\ Len(sub_prompt) <= Len(sub_messages)
              /\ \A i \in 2..Len(sub_prompt) : sub_prompt[i] = Formatted(sub_messages[i - 1])
    /\ (pc = "spawn" /\ spawned # <<>>) => messages = parent_snapshot

C15_Witness ==
    /\ pc = "sub_run"
    /\ Len(spawned) = 1
    /\ sub_iteration = 2
    /\ Len(sub_prompt) > 3
    /\ Len(messages) > 1

\* C19: an on_llm_output entered at or over the depth limit on an output with
\* k >= 1 delegation spans returns a text in which no delegation span is left
C19_NoSpanLeftAtLimit ==
    (HookAtLimit /\ hook.matches # <<>>) => SubagentMatches(modified_output, 1) = <<>>

\* text with the first occurrence of each of spans, from left to right,
\* replaced by the block of the same index
RECURSIVE SplicedInOrder(_, _, _)
SplicedInOrder(text, spans, blocks) ==
    IF spans = <<>> THEN text
    ELSE LET i == Find(text, Head(spans), 1)
         IN  IF i = 0 THEN text
             ELSE Slice(text, 1, i - 1) \o Head(blocks)
                  \o SplicedInOrder(Suffix(text, i + Len(Head(spans))), Tail(spans),
                                    Tail(blocks))

SpanOf(m) == m.span
WrapperOf(sp) == FormatResult(sp.call)

\* C20: below the depth limit on_llm_output returns the text with span i
\* replaced by the wrapper of the i-th spawned call (name of span i, that
\* call's index and full output), identical spans included; every spawned
\* call's wrapper is in the text and call_index is the call's place in call_trace
C20_EachSpanGetsItsOwnWrapper ==
    (hook # None /\ hook.returned /\ hook.depth < max_depth /\ hook.matches # <<>>) =>
      /\ Len(spawned) = Len(hook.matches)
      /\ \A i \in 1..Len(spawned) :
           /\ spawned[i].call.name = hook.matches[i].name
           /\ call_trace[spawned[i].call.call_index + 1] = spawned[i].call
           /\ Contains(modified_output, FormatResult(spawned[i].call))
      /\ modified_output = SplicedInOrder(hook.input, MapSeq(SpanOf, hook.matches),
                                          MapSeq(WrapperOf, spawned))
\* the spawns of the latest on_llm_output that ended in outcome
Ended(outcome) == {i \in 1..Len(spawned) : spawned[i].outcome = outcome}

\* C21: a spawn leaves current_depth as it found it, however the sub-run ends:
\* between the spawns of an on_llm_output the depth is the depth on entry,
\* inside a sub-run it is one more, and it is 0 whenever no on_llm_output is
\* in progress
C21_DepthRestoredAfterEverySpawn ==
    /\ pc = "spawn" => current_depth = hook.depth
    /\ InSubRun => current_depth = hook.depth + 1
    /\ pc \notin {"spawn", "sub_run", "sub_actions"} => current_depth = 0

C21_Witness ==
    /\ pc = "spawn"
    /\ Ended("raised") # {}
    /\ Ended("failure") # {}
    /\ current_depth = 0

\* the status a SubagentCall must carry for an outcome of the sub-run
StatusFor(outcome) ==
    CASE outcome = "success" -> "success"
      [] outcome = "failure" -> "failed"
      [] outcome = "raised" -> "error"

LastSpawned == spawned[Len(spawned)]

\* C23: an exception of Extension.execute leaves a top-level run with no
\* result returned (none recorded for the outer iteration, none from
\* run_ralph_loop); in a sub-run it is caught: the spawn ends with a SubagentCall
\* of status "error" at the end of call_trace, the error block of that call is
\* in the parent's text, and the parent's run goes on
C23_ExecuteRaiseAsymmetry ==
    /\ pc = "raised" =>
         /\ final_result = None
         /\ Len(trajectory) = iteration - 1
    /\ (pc = "spawn" /\ spawned # <<>> /\ LastSpawned.outcome = "raised") =>
         /\ LastSpawned.call.status = "error"
         /\ call_trace[Len(call_trace)] = LastSpawned.call
         /\ Contains(modified_output, FormatResult(LastSpawned.call))
\* what the last of calls returned, or given when there is none
LastReturned(calls, given) == IF calls = <<>> THEN given ELSE calls[Len(calls)].returned

\* calls are invocations of hook_name on extensions 1..n in that order, the
\* first one given `given` and each later one what the one before returned
ChainedInOrder(calls, hook_name, given) ==
    /\ Len(calls) = Len(extensions)
    /\ \A k \in 1..Len(calls) :
         /\ calls[k].hook = hook_name
         /\ calls[k].ext = k
         /\ calls[k].given = (IF k = 1 THEN given ELSE calls[k - 1].returned)
         /\ calls[k].returned =
              (IF hook_name = "on_input_messages"
                 THEN OnInputMessages(extensions[k], calls[k].given)
                 ELSE OnLlmOutput(extensions[k], calls[k].given))

\* C24: for each LLM call of a run the invocations are, in this order:
\* on_input_messages of every registered extension in registration order, each
\* given what the one before returned; the callback, given the list formatted
\* from the last return value; on_llm_output of every registered extension in
\* registration order, the first given the callback's return value; and the
\* text parsed and stored as the assistant message is the last return value
C24_HooksInRegistrationOrder ==
    llm_calls > 0 =>
      LET n == Len(extensions)
          inputs == SubSeq(hook_calls, 1, n)
          call == hook_calls[n + 1]
          outputs == SubSeq(hook_calls, n + 2, Len(hook_calls))
      IN  /\ Len(hook_calls) = 2 * n + 1
          /\ n > 0 => ChainedInOrder(inputs, "on_input_messages", inputs[1].given)
          /\ call.hook = "llm_client"
          /\ call.given = last_prompt
          /\ n > 0 =>
               call.given = (IF system_prompt # ""
                               THEN <<[role |-> "system", content |-> system_prompt]>>
                               ELSE <<>>)
                            \o MapSeq(Formatted, inputs[n].returned)
          /\ call.returned = replies[Len(replies)]
          /\ ChainedInOrder(outputs, "on_llm_output", call.returned)
          /\ llm_output = LastReturned(outputs, call.returned)
          /\ dispatched = None =>
               /\ messages[Len(messages)] = Message("assistant", llm_output)
               /\ IF ParsedOf(llm_output) = <<>>
                    THEN run_completed /\ results.final_output = llm_output
                    ELSE pc = "actions" /\ actions = ParsedOf(llm_output)

C24_Witness ==
    /\ Len(extensions) > 2
    /\ llm_calls > 0
    /\ hook_calls[1].returned # hook_calls[1].given
    /\ dispatched = None
    /\ pc = "actions"
\* C25: run_ralph_loop sleeps only between two outer iterations: while the
\* r-th outer iteration runs it has slept r-1 times, after an outer iteration
\* that stops the loop (by completion or at the cap) it has not slept again,
\* and a loop that returns after r >= 1 outer iterations has slept r-1 times
C25_SleepsOnlyBetweenIterations ==
    /\ pc \in {"run", "actions"} => sleeps = iteration - 1
    /\ (pc = "ralph" /\ iteration >= 1) =>
         sleeps = (IF completed \/ iteration >= config_max THEN iteration - 1 ELSE iteration)
    /\ (pc = "done" /\ iteration >= 1) => sleeps = iteration - 1

C25_Witness ==
    /\ pc = "done"
    /\ iteration = 2
    /\ sleeps = 1
    /\ ~completed
IsTask(m) == m.role = "user" /\ m.content = Task
IsAssistant(m) == m.role = "assistant"
AssistantContent(m) == m.content

\* a is b with some elements left out
RECURSIVE IsSubsequence(_, _)
IsSubsequence(a, b) ==
    IF a = <<>> THEN TRUE
    ELSE IF b = <<>> THEN FALSE
    ELSE IF Head(a) = Head(b) THEN IsSubsequence(Tail(a), Tail(b))
    ELSE IsSubsequence(a, Tail(b))

\* C26: the outer iterations share one memory (no compression at these
\* sizes): in the k-th outer iteration the stored sequence holds k copies of
\* the task message, and so does the list handed to the callback at the first
\* LLM call; its assistant messages are all the outputs since the start of
\* the loop, in order; and no step removes or reorders a stored message
C26_HistoryAccumulatesAcrossIterations ==
    /\ [](/\ Len(SelectSeq(messages, IsTask)) = iteration
          /\ llm_calls = 1 => Len(SelectSeq(last_prompt, IsTask)) = iteration
          /\ MapSeq(AssistantContent, SelectSeq(messages, IsAssistant)) = replies)
    /\ [][IsSubsequence(messages, messages')]_vars

C26_Witness ==
    /\ iteration = 2
    /\ llm_calls = 1
    /\ dispatched = None
    /\ trajectory[1].result.actions # <<>>
    /\ \E i \in 1..Len(messages) : Slice(messages[i].content, 1, 8) = "<result>"
\* the latest add_message found a summary at the head of the sequence
FoundSummary == prev_messages # <<>> /\ prev_messages[1].compressed

\* C27: once a compression has occurred, an add_message that leaves the
\* estimate at or under max_tokens * compression_threshold compresses nothing:
\* the sequence is the old one with the message appended, its summary message
\* and that message's original_count as they were
C27_NoSecondCompressionUnderBudget ==
    (adds > 0 /\ FoundSummary /\ ~OverBudget(Appended)) =>
      /\ messages = Appended
      /\ messages[1] = prev_messages[1]
      /\ \A i \in 2..Len(messages) : ~messages[i].compressed

C27_Witness ==
    /\ adds > 0
    /\ FoundSummary
    /\ ~OverBudget(Appended)
    /\ Len(messages) = KeepRecent + 2

\* C28: after every add_message the estimate of the stored sequence is at
\* most max_tokens * compression_threshold
C28_BufferWithinBudget ==
    adds > 0 => ~OverBudget(messages)

\* C29: the stored sequence holds at most one compressed message, and that
\* one first; a compression that finds a summary at the head counts it as one
\* of the older messages of the new summary and does not keep it
C29_OneSummaryAtHead ==
    /\ \A i \in 1..Len(messages) : messages[i].compressed => i = 1
    /\ (adds > 0 /\ FoundSummary /\ messages # Appended) =>
         /\ CompressedForm(messages, Appended)
         /\ messages[1] # prev_messages[1]
         /\ messages[1].original_count = Len(prev_messages) + 1 - KeepRecent

C29_Witness ==
    /\ adds > 0
    /\ FoundSummary
    /\ messages # Appended
    /\ messages[1].compressed
    /\ Len(prev_messages) = MinCompressLen - 1
\* C30: in the result of run_ralph_loop completion_promise_found is true only
\* if the completion promise was a substring of the final_output of the last
\* outer Orchestrator.run call
C30_PromiseFoundOnlyWithPromise ==
    (pc = "done" /\ Final.completion_promise_found) =>
      /\ result # None
      /\ PromiseIn(Returned.final_output)
====
